---- MODULE Spec2Model ----
(***************************************************************************)
(* Countdown engine of src/src/App.jsx (component App).                    *)
(*                                                                         *)
(* Times are milliseconds, as returned by Date.now().  The clock moves in  *)
(* quanta of the sampler period (250 ms); a tick may fire at any clock     *)
(* value while its interval is live, so tick spacing is irregular.         *)
(*                                                                         *)
(* React scheduling, as far as the component depends on it:                *)
(*  - secondsLeft and running are the values of the last committed render; *)
(*    event handlers and the effect body close over them.                  *)
(*  - refs (endRef, timerRef) are written immediately.                     *)
(*  - a discrete event (click, change) is handled as one step: handler,    *)
(*    then the synchronous re-render of the updates it queued.  Pending    *)
(*    passive effects are flushed before the event is dispatched.          *)
(*  - the operator acts on a settled view: a click is dispatched once the  *)
(*    updates queued by earlier ticks have been rendered (Settled).        *)
(*  - concurrentRoot = TRUE  (createRoot, React 18+): updates queued by a  *)
(*    timer callback are batched and rendered in a later task, so they sit *)
(*    in pendSeconds / pendStop until Render; the effects of a click's     *)
(*    render are flushed in the same step.                                 *)
(*  - concurrentRoot = FALSE (legacy root): updates queued by a timer      *)
(*    callback render synchronously inside the callback; passive effects   *)
(*    are flushed later (FlushEffects), but always before the next render  *)
(*    or discrete event.                                                   *)
(* The build's root mode is not part of src/, so it is chosen in Init.     *)
(***************************************************************************)
EXTENDS Integers, FiniteSets, Sequences, TLC

VARIABLES
    secondsLeft,    \* useState(300): committed value
    running,        \* useState(false): committed value
    pendSeconds,    \* setSecondsLeft(v) queued by a tick, not yet rendered (None if none)
    pendStop,       \* setRunning(false) queued by a tick, not yet rendered
    depRunning,     \* value of `running` the [running] effect last ran with
    endRef,         \* endRef.current
    timerRef,       \* timerRef.current
    live,           \* ids of the intervals that are set and not cleared
    minutesInput,   \* useState('')
    showControls,   \* useState(false)
    alertMsg,       \* message of the alert() raised by the last handler, "" if none
    now,            \* Date.now()
    mounted,        \* the component is mounted
    concurrentRoot, \* root mode of the build
    operatorIdle,   \* the operator has stopped acting on the view
    last,           \* name of the last step taken
    bgUrl,          \* useState(null): the background shown
    uploadingToServer, \* useState(false)
    inflight,       \* files POSTed to /upload whose response has not arrived
    lastFile,       \* the file the operator selected last (0: none to show)
    nextFile,       \* number of the next file the operator selects
    objectUrls,     \* files with an object URL created and not revoked
    fmtArg,         \* argument of a formatTime call
    fmtOut          \* its result

compVars == <<secondsLeft, running, pendSeconds, pendStop, depRunning, endRef,
              timerRef, live, minutesInput, showControls, alertMsg>>
vars == <<secondsLeft, running, pendSeconds, pendStop, depRunning, endRef,
          timerRef, live, minutesInput, showControls, alertMsg,
          now, mounted, concurrentRoot, operatorIdle, last,
          bgUrl, uploadingToServer, inflight, lastFile, nextFile, objectUrls,
          fmtArg, fmtOut>>

(* State of the background picker and of the formatter *)
sideVars == <<bgUrl, uploadingToServer, inflight, lastFile, nextFile, objectUrls,
              fmtArg, fmtOut>>

----------------------------------------------------------------------------
(* Bounds and program constants *)

MaxNow == 3000

Null == -1
None == -1
DefaultSeconds == 300
TickMs == 250

AlertMinutes == "Enter minutes > 0"
AlertStart == "Set minutes first"

(* Values the minutes <input> can hand to setMinutesInput. *)
MinutesInputs == {"", "0", "-5", "abc", "0.005", "0.02", "0.05", "1"}

----------------------------------------------------------------------------
(* Arithmetic helpers *)

Max(a, b) == IF a >= b THEN a ELSE b

(* Math.round(num / den) for den > 0: nearest integer, halves toward +inf. *)
MathRound(num, den) == (2 * num + den) \div (2 * den)

(* Number(str): nan, or the value in thousandths. *)
NumberOf(str) ==
    CASE str = ""      -> [nan |-> FALSE, milli |-> 0]
      [] str = "0"     -> [nan |-> FALSE, milli |-> 0]
      [] str = "-5"    -> [nan |-> FALSE, milli |-> -5000]
      [] str = "abc"   -> [nan |-> TRUE,  milli |-> 0]
      [] str = "0.005" -> [nan |-> FALSE, milli |-> 5]
      [] str = "0.02"  -> [nan |-> FALSE, milli |-> 20]
      [] str = "0.05"  -> [nan |-> FALSE, milli |-> 50]
      [] str = "1"     -> [nan |-> FALSE, milli |-> 1000]

(* Number.isFinite(n) *)
IsFinite(n) == ~n.nan

(* null coerces to 0 in endRef.current - Date.now() *)
ToNumber(ref) == IF ref = Null THEN 0 ELSE ref

(* !endRef.current *)
Falsy(ref) == ref = Null \/ ref = 0

(* Math.max(0, Math.round((endRef.current - Date.now()) / 1000)) *)
Remain(ref, t) == Max(0, MathRound(ToNumber(ref) - t, 1000))

(* clearInterval(id): clearing null or a dead id is a no-op *)
ClearInterval(ids, id) == ids \ {id}

(* setInterval returns an id no live or referenced interval has *)
FreshId(ids, ref) == CHOOSE i \in 1..(Cardinality(ids) + 2) : i \notin ids /\ i # ref

----------------------------------------------------------------------------
(* The component as a record, so that handlers compose *)

Comp ==
    [secondsLeft |-> secondsLeft, running |-> running,
     pendSeconds |-> pendSeconds, pendStop |-> pendStop,
     depRunning |-> depRunning, endRef |-> endRef, timerRef |-> timerRef,
     live |-> live, minutesInput |-> minutesInput,
     showControls |-> showControls, alertMsg |-> alertMsg]

Install(c) ==
    /\ secondsLeft' = c.secondsLeft
    /\ running' = c.running
    /\ pendSeconds' = c.pendSeconds
    /\ pendStop' = c.pendStop
    /\ depRunning' = c.depRunning
    /\ endRef' = c.endRef
    /\ timerRef' = c.timerRef
    /\ live' = c.live
    /\ minutesInput' = c.minutesInput
    /\ showControls' = c.showControls
    /\ alertMsg' = c.alertMsg

(* State setters called from a discrete event: rendered at the end of the  *)
(* event; a value queued earlier by a tick for the same state is overridden *)
SetSecondsLeft(c, v) == [c EXCEPT !.secondsLeft = v, !.pendSeconds = None]
SetRunning(c, v) == [c EXCEPT !.running = v, !.pendStop = FALSE]

(* The values React holds once every queued update is applied *)
StateSecondsLeft == IF pendSeconds # None THEN pendSeconds ELSE secondsLeft
StateRunning == IF pendStop THEN FALSE ELSE running

----------------------------------------------------------------------------
(* useEffect(..., [running]) *)

EffectPending(c) == c.running # c.depRunning

(* Variant: the id setInterval returns is not kept in timerRef *)
RunningEffectNoStore(c, t) ==
    LET c1 == [c EXCEPT !.live = ClearInterval(c.live, c.timerRef)]
    IN  IF c1.running
        THEN LET ids == ClearInterval(c1.live, c1.timerRef)
                 id == FreshId(ids, c1.timerRef)
             IN  [c1 EXCEPT !.live = ids \cup {id}, !.depRunning = c1.running]
        ELSE [c1 EXCEPT !.live = ClearInterval(c1.live, c1.timerRef),
                        !.depRunning = c1.running]

(* cleanup of the previous run, then the body, with the committed render's values *)
RunningEffect(c, t) ==
    LET c1 == [c EXCEPT !.live = ClearInterval(c.live, c.timerRef)]
    IN  IF c1.running
        THEN LET c2 == IF Falsy(c1.endRef)
                       THEN [c1 EXCEPT !.endRef = t + c1.secondsLeft * 1000]
                       ELSE c1
                 ids == ClearInterval(c2.live, c2.timerRef)
                 id == FreshId(ids, c2.timerRef)
             IN  [c2 EXCEPT !.live = ids \cup {id}, !.timerRef = id,
                            !.depRunning = c2.running]
        ELSE [c1 EXCEPT !.live = ClearInterval(c1.live, c1.timerRef),
                        !.depRunning = c1.running]

FlushPassive(c, t) == IF EffectPending(c) THEN RunningEffect(c, t) ELSE c

----------------------------------------------------------------------------
(* The interval callback *)

(* Variant: the callback counts ticks down instead of reading the target *)
TickCallbackDecrement(c, t, sync) ==
    LET cur == IF c.pendSeconds # None THEN c.pendSeconds ELSE c.secondsLeft
        remain == Max(0, cur - 1)
        c1 == IF sync THEN [c EXCEPT !.secondsLeft = remain]
                      ELSE [c EXCEPT !.pendSeconds = remain]
    IN  IF remain <= 0
        THEN LET c2 == [c1 EXCEPT !.live = ClearInterval(c1.live, c1.timerRef),
                                  !.endRef = Null]
             IN  IF sync THEN [c2 EXCEPT !.running = FALSE]
                         ELSE [c2 EXCEPT !.pendStop = TRUE]
        ELSE c1

(* Variant: the callback publishes the value but never stops at zero *)
TickCallbackNoStop(c, t, sync) ==
    LET remain == Remain(c.endRef, t)
    IN  IF sync THEN [c EXCEPT !.secondsLeft = remain]
                ELSE [c EXCEPT !.pendSeconds = remain]

TickCallback(c, t, sync) ==
    LET remain == Remain(c.endRef, t)
        c1 == IF sync THEN [c EXCEPT !.secondsLeft = remain]
                      ELSE [c EXCEPT !.pendSeconds = remain]
    IN  IF remain <= 0
        THEN LET c2 == [c1 EXCEPT !.live = ClearInterval(c1.live, c1.timerRef),
                                  !.endRef = Null]
             IN  IF sync THEN [c2 EXCEPT !.running = FALSE]
                         ELSE [c2 EXCEPT !.pendStop = TRUE]
        ELSE c1

(* The deferred render of the updates ticks queued *)
RenderPending(c) ==
    [c EXCEPT !.secondsLeft = IF c.pendSeconds # None THEN c.pendSeconds ELSE c.secondsLeft,
              !.running = IF c.pendStop THEN FALSE ELSE c.running,
              !.pendSeconds = None, !.pendStop = FALSE]

----------------------------------------------------------------------------
(* Handlers *)

(* Variant: Set replaces the seconds but leaves the countdown running *)
applyMinutesKeepsRunning(c) ==
    LET n == NumberOf(c.minutesInput)
    IN  IF ~IsFinite(n) \/ n.milli <= 0
        THEN [c EXCEPT !.alertMsg = AlertMinutes]
        ELSE SetSecondsLeft(c, MathRound(n.milli * 60, 1000))

(* Variant: the guard tests n < 0, so 0 is accepted *)
applyMinutesAcceptsZero(c) ==
    LET n == NumberOf(c.minutesInput)
    IN  IF ~IsFinite(n) \/ n.milli < 0
        THEN [c EXCEPT !.alertMsg = AlertMinutes]
        ELSE [SetRunning(SetSecondsLeft(c, MathRound(n.milli * 60, 1000)), FALSE)
                 EXCEPT !.endRef = Null]

applyMinutes(c) ==
    LET n == NumberOf(c.minutesInput)
    IN  IF ~IsFinite(n) \/ n.milli <= 0
        THEN [c EXCEPT !.alertMsg = AlertMinutes]
        ELSE [SetRunning(SetSecondsLeft(c, MathRound(n.milli * 60, 1000)), FALSE)
                 EXCEPT !.endRef = Null]

(* Variant: the target lies one second beyond the seconds shown *)
startTimerExtraSecond(c, t) ==
    IF c.secondsLeft <= 0
    THEN [c EXCEPT !.alertMsg = AlertStart]
    ELSE [SetRunning([c EXCEPT !.showControls = FALSE], TRUE)
             EXCEPT !.endRef = t + (c.secondsLeft + 1) * 1000]

(* Variant: the target is taken in seconds, not milliseconds *)
startTimerNoScale(c, t) ==
    IF c.secondsLeft <= 0
    THEN [c EXCEPT !.alertMsg = AlertStart]
    ELSE [SetRunning([c EXCEPT !.showControls = FALSE], TRUE)
             EXCEPT !.endRef = t + c.secondsLeft]

startTimer(c, t) ==
    IF c.secondsLeft <= 0
    THEN [c EXCEPT !.alertMsg = AlertStart]
    ELSE [SetRunning([c EXCEPT !.showControls = FALSE], TRUE)
             EXCEPT !.endRef = t + c.secondsLeft * 1000]

(* Variant: pause leaves the target in place *)
pauseTimerKeepsTarget(c) ==
    SetRunning([c EXCEPT !.live = ClearInterval(c.live, c.timerRef)], FALSE)

pauseTimer(c) ==
    [SetRunning([c EXCEPT !.live = ClearInterval(c.live, c.timerRef)], FALSE)
        EXCEPT !.endRef = Null]

(* Variant: resume goes on from the second after the one displayed *)
resumeTimerOffByOne(c, t) ==
    IF c.secondsLeft <= 0
    THEN c
    ELSE [SetRunning(c, TRUE) EXCEPT !.endRef = t + (c.secondsLeft - 1) * 1000]

resumeTimer(c, t) ==
    IF c.secondsLeft <= 0
    THEN c
    ELSE [SetRunning(c, TRUE) EXCEPT !.endRef = t + c.secondsLeft * 1000]

(* Variant: reset stops the countdown but keeps the seconds *)
resetTimerKeepsSeconds(c) ==
    [SetRunning([c EXCEPT !.live = ClearInterval(c.live, c.timerRef)], FALSE)
        EXCEPT !.endRef = Null]

resetTimer(c) ==
    SetSecondsLeft(
        [SetRunning([c EXCEPT !.live = ClearInterval(c.live, c.timerRef)], FALSE)
            EXCEPT !.endRef = Null],
        0)

(* A discrete event: the handler runs and its updates are rendered; on a   *)
(* concurrent root the effects of that render are flushed before the event *)
(* returns.                                                                *)
Before(c) == [c EXCEPT !.alertMsg = ""]
After(c, t) == IF concurrentRoot THEN FlushPassive(c, t) ELSE c

(* No update queued by a tick is waiting for its render *)
Settled == pendSeconds = None /\ ~pendStop

(* React dispatches a discrete event of the operator *)
OperatorReady == mounted /\ ~operatorIdle /\ ~EffectPending(Comp) /\ Settled

(* bgUrl when no background is set *)
NoUrl == <<"none", 0>>

----------------------------------------------------------------------------
Init ==
    /\ secondsLeft = DefaultSeconds
    /\ running = FALSE
    /\ pendSeconds = None
    /\ pendStop = FALSE
    /\ depRunning = FALSE
    /\ endRef = Null
    /\ timerRef = Null
    /\ live = {}
    /\ minutesInput = ""
    /\ showControls = FALSE
    /\ alertMsg = ""
    /\ now = 0
    /\ mounted = TRUE
    /\ concurrentRoot \in BOOLEAN
    /\ operatorIdle = FALSE
    /\ last = "init"
    /\ bgUrl = NoUrl
    /\ uploadingToServer = FALSE
    /\ inflight = {}
    /\ lastFile = 0
    /\ nextFile = 1
    /\ objectUrls = {}
    /\ fmtArg = 0
    /\ fmtOut = <<>>

Frame == UNCHANGED <<now, mounted, concurrentRoot, operatorIdle, sideVars>>

ToggleControls ==
    /\ OperatorReady
    /\ Install([Before(Comp) EXCEPT !.showControls = ~showControls])
    /\ last' = "toggle"
    /\ Frame

ChangeMinutes ==
    /\ OperatorReady /\ showControls
    /\ \E v \in MinutesInputs :
          /\ v # minutesInput
          /\ Install([Before(Comp) EXCEPT !.minutesInput = v])
    /\ last' = "change"
    /\ Frame

SetStep ==
    /\ Install(After(applyMinutes(Before(Comp)), now))
    /\ last' = "set"
    /\ Frame

ClickSet == OperatorReady /\ showControls /\ SetStep

StartStep ==
    /\ Install(After(startTimer(Before(Comp), now), now))
    /\ last' = "start"
    /\ Frame

ClickStart == OperatorReady /\ showControls /\ StartStep

PauseStep ==
    /\ Install(After(pauseTimer(Before(Comp)), now))
    /\ last' = "pause"
    /\ Frame

ClickPause == OperatorReady /\ showControls /\ PauseStep

ResumeStep ==
    /\ Install(After(resumeTimer(Before(Comp), now), now))
    /\ last' = "resume"
    /\ Frame

ClickResume == OperatorReady /\ showControls /\ ResumeStep

ResetStep ==
    /\ Install(After(resetTimer(Before(Comp)), now))
    /\ last' = "reset"
    /\ Frame

ClickReset == OperatorReady /\ showControls /\ ResetStep

(* An interval that is live fires its callback *)
Tick ==
    /\ live # {}
    /\ Install(TickCallback(Comp, now, ~concurrentRoot))
    /\ last' = "tick"
    /\ Frame

(* React renders the updates the ticks queued *)
Render ==
    /\ mounted
    /\ ~EffectPending(Comp)
    /\ ~Settled
    /\ Install(RenderPending(Comp))
    /\ last' = "render"
    /\ Frame

(* React flushes the passive effects of the last commit *)
FlushEffects ==
    /\ mounted
    /\ EffectPending(Comp)
    /\ Install(RunningEffect(Comp, now))
    /\ last' = "effects"
    /\ Frame

(* Unmount: the cleanups of both effects run; updates still queued are    *)
(* never rendered                                                          *)
UnmountCleanup(c) ==
    [c EXCEPT !.live = ClearInterval(ClearInterval(c.live, c.timerRef), c.timerRef)]

Unmount ==
    /\ mounted /\ ~operatorIdle
    /\ ~EffectPending(Comp)
    /\ Install(UnmountCleanup(Comp))
    /\ mounted' = FALSE
    /\ last' = "unmount"
    /\ UNCHANGED <<now, concurrentRoot, operatorIdle, sideVars>>

Advance ==
    /\ now + TickMs <= MaxNow
    /\ now' = now + TickMs
    /\ last' = "advance"
    /\ UNCHANGED <<compVars, mounted, concurrentRoot, operatorIdle, sideVars>>

Next ==
    \/ ToggleControls
    \/ ChangeMinutes
    \/ ClickSet
    \/ ClickStart
    \/ ClickPause
    \/ ClickResume
    \/ ClickReset
    \/ Tick
    \/ Render
    \/ FlushEffects
    \/ Unmount
    \/ Advance

Spec == Init /\ [][Next]_vars

(* The same program with an operator who at some point stops acting, runs  *)
(* that end within the clock's range, and the scheduling the browser and   *)
(* React guarantee: a live interval keeps firing, queued renders and       *)
(* effects are carried out, the clock advances.                            *)
Fits == secondsLeft > 0 => now + secondsLeft * 1000 <= MaxNow

ClickStartFits == Fits /\ ClickStart

ClickResumeFits == Fits /\ ClickResume

OperatorLeaves ==
    /\ mounted /\ ~operatorIdle
    /\ operatorIdle' = TRUE
    /\ last' = "leave"
    /\ UNCHANGED <<compVars, now, mounted, concurrentRoot, sideVars>>

NextLive ==
    \/ ToggleControls
    \/ ChangeMinutes
    \/ ClickSet
    \/ ClickStartFits
    \/ ClickPause
    \/ ClickResumeFits
    \/ ClickReset
    \/ Tick
    \/ Render
    \/ FlushEffects
    \/ OperatorLeaves
    \/ Advance

LiveSpec ==
    /\ Init /\ [][NextLive]_vars
    /\ WF_vars(Tick) /\ WF_vars(Render) /\ WF_vars(FlushEffects) /\ WF_vars(Advance)

----------------------------------------------------------------------------
(* The same program with an operator who may also click between a timer    *)
(* callback and the render React has queued for its updates: the handler   *)
(* then runs in the closure of the last committed render, and its updates  *)
(* are rendered synchronously, ahead of or together with the queued ones.  *)
RaceReady == mounted /\ ~operatorIdle /\ ~EffectPending(Comp)

RaceSet == RaceReady /\ showControls /\ SetStep

RaceStart == RaceReady /\ showControls /\ StartStep

RacePause == RaceReady /\ showControls /\ PauseStep

RaceResume == RaceReady /\ showControls /\ ResumeStep

RaceReset == RaceReady /\ showControls /\ ResetStep

NextRace ==
    \/ ToggleControls
    \/ ChangeMinutes
    \/ RaceSet
    \/ RaceStart
    \/ RacePause
    \/ RaceResume
    \/ RaceReset
    \/ Tick
    \/ Render
    \/ FlushEffects
    \/ Unmount
    \/ Advance

SpecRace == Init /\ [][NextRace]_vars

----------------------------------------------------------------------------
(* formatTime, on strings represented as sequences of one-character        *)
(* strings.                                                                *)
MaxHours == 101

DigitChar(d) == <<"0", "1", "2", "3", "4", "5", "6", "7", "8", "9">>[d + 1]

(* Number.prototype.toString of a non-negative integer *)
RECURSIVE toString(_)
toString(n) ==
    IF n < 10 THEN <<DigitChar(n)>>
    ELSE Append(toString(n \div 10), DigitChar(n % 10))

(* String.prototype.padStart with a one-character filler *)
RECURSIVE padStart(_, _, _)
padStart(str, len, fill) ==
    IF Len(str) >= len THEN str ELSE padStart(<<fill>> \o str, len, fill)

(* Variant: the hours wrap at 24 *)
formatTimeWraps(s) ==
    LET hh == padStart(toString((s \div 3600) % 24), 2, "0")
        mm == padStart(toString((s % 3600) \div 60), 2, "0")
        ss == padStart(toString(s % 60), 2, "0")
    IN  hh \o <<":">> \o mm \o <<":">> \o ss

formatTime(s) ==
    LET hh == padStart(toString(s \div 3600), 2, "0")
        mm == padStart(toString((s % 3600) \div 60), 2, "0")
        ss == padStart(toString(s % 60), 2, "0")
    IN  hh \o <<":">> \o mm \o <<":">> \o ss

(* The seconds formatTime is applied to: every value below MaxHours + 1   *)
(* hours                                                                   *)
FormatInputs == 0 .. (MaxHours * 3600 + 3599)

InitFormat ==
    /\ secondsLeft = DefaultSeconds
    /\ running = FALSE
    /\ pendSeconds = None
    /\ pendStop = FALSE
    /\ depRunning = FALSE
    /\ endRef = Null
    /\ timerRef = Null
    /\ live = {}
    /\ minutesInput = ""
    /\ showControls = FALSE
    /\ alertMsg = ""
    /\ now = 0
    /\ mounted = TRUE
    /\ concurrentRoot \in BOOLEAN
    /\ operatorIdle = FALSE
    /\ last = "init"
    /\ bgUrl = NoUrl
    /\ uploadingToServer = FALSE
    /\ inflight = {}
    /\ lastFile = 0
    /\ nextFile = 1
    /\ objectUrls = {}
    /\ fmtArg \in FormatInputs
    /\ fmtOut = <<>>

(* The view renders formatTime of the seconds *)
FormatStep ==
    /\ fmtOut' = formatTime(fmtArg)
    /\ last' = "format"
    /\ UNCHANGED <<compVars, now, mounted, concurrentRoot, operatorIdle,
                   bgUrl, uploadingToServer, inflight, lastFile, nextFile,
                   objectUrls, fmtArg>>

NextFormat == FormatStep

SpecFormat == InitFormat /\ [][NextFormat]_vars

----------------------------------------------------------------------------
(* The background picker. A file is a number; bgUrl is <<kind, file>> with  *)
(* kind "blob" for an object URL and "server" for a URL of the upload       *)
(* server. The continuation of handleServerUpload after its awaits runs as  *)
(* one step when the response arrives.                                      *)
MaxFiles == 3
AlertUpload == "Upload failed. Is the server running on port 4000?"

(* if (bgUrl && bgUrl.startsWith('blob:')) URL.revokeObjectURL(bgUrl) *)
Revoke(urls, url) == IF url[1] = "blob" THEN urls \ {url[2]} ELSE urls

PickerReady == OperatorReady /\ showControls

PickerFrame ==
    UNCHANGED <<now, mounted, concurrentRoot, operatorIdle, fmtArg, fmtOut>>

(* onFileChange -> handleLocalUpload(file) *)
SelectLocal ==
    /\ PickerReady /\ nextFile <= MaxFiles
    /\ objectUrls' = Revoke(objectUrls, bgUrl) \cup {nextFile}
    /\ bgUrl' = <<"blob", nextFile>>
    /\ lastFile' = nextFile
    /\ nextFile' = nextFile + 1
    /\ Install(Before(Comp))
    /\ last' = "local"
    /\ UNCHANGED <<uploadingToServer, inflight>>
    /\ PickerFrame

(* onFileChangeServer -> handleServerUpload(file), up to the fetch *)
SelectServer ==
    /\ PickerReady /\ nextFile <= MaxFiles
    /\ uploadingToServer' = TRUE
    /\ inflight' = inflight \cup {nextFile}
    /\ lastFile' = nextFile
    /\ nextFile' = nextFile + 1
    /\ Install(Before(Comp))
    /\ last' = "server"
    /\ UNCHANGED <<bgUrl, objectUrls>>
    /\ PickerFrame

(* handleServerUpload after the awaits: res.ok, the body parsed *)
ServerOk ==
    /\ mounted
    /\ \E f \in inflight :
          /\ inflight' = inflight \ {f}
          /\ bgUrl' = <<"server", f>>
    /\ uploadingToServer' = FALSE
    /\ last' = "serverOk"
    /\ UNCHANGED <<compVars, lastFile, nextFile, objectUrls>>
    /\ PickerFrame

(* handleServerUpload after the awaits: fetch rejected or !res.ok *)
ServerFail ==
    /\ mounted
    /\ \E f \in inflight : inflight' = inflight \ {f}
    /\ Install([Comp EXCEPT !.alertMsg = AlertUpload])
    /\ uploadingToServer' = FALSE
    /\ last' = "serverFail"
    /\ UNCHANGED <<bgUrl, lastFile, nextFile, objectUrls>>
    /\ PickerFrame

(* clearBg *)
ClickClearBg ==
    /\ PickerReady
    /\ objectUrls' = Revoke(objectUrls, bgUrl)
    /\ bgUrl' = NoUrl
    /\ lastFile' = 0
    /\ Install(Before(Comp))
    /\ last' = "clearBg"
    /\ UNCHANGED <<uploadingToServer, inflight, nextFile>>
    /\ PickerFrame

NextUpload ==
    \/ ToggleControls
    \/ SelectLocal
    \/ SelectServer
    \/ ServerOk
    \/ ServerFail
    \/ ClickClearBg

SpecUpload == Init /\ [][NextUpload]_vars

----------------------------------------------------------------------------
(* Derived values the claims speak about *)

(* Denominator of the progress ring, in thousandths of a second:           *)
(* Number(minutesInput || secondsLeft / 60) * 60                           *)
Denominator(c) ==
    IF c.minutesInput # ""
    THEN [nan |-> NumberOf(c.minutesInput).nan,
          milli |-> NumberOf(c.minutesInput).milli * 60]
    ELSE [nan |-> FALSE, milli |-> c.secondsLeft * 1000]

(* Not running, display at zero, no target, no sampler *)
Stopped == ~StateRunning /\ endRef = Null /\ live = {}
AtZero == Stopped /\ StateSecondsLeft = 0

(* One of the entries applyMinutes accepts (finite, > 0) *)
Accepted(str) == ~NumberOf(str).nan /\ NumberOf(str).milli > 0

(* secondsLeft / (Number(minutesInput || secondsLeft / 60) * 60), the      *)
(* fraction of the ring: NaN for a NaN entry and for 0/0, infinite for x/0 *)
ProgressFraction(c) ==
    LET d == Denominator(c)
    IN  [nan |-> d.nan \/ (d.milli = 0 /\ c.secondsLeft = 0),
         inf |-> ~d.nan /\ d.milli = 0 /\ c.secondsLeft > 0,
         num |-> c.secondsLeft * 1000,
         den |-> d.milli]

IsOne(f) == ~f.nan /\ ~f.inf /\ f.num = f.den
IsZero(f) == ~f.nan /\ ~f.inf /\ f.num = 0

(* Math.ceil((Number(minutesInput || 5) * 60) / 4), in seconds *)
DefaultMinutes == 5
WarningThreshold(c) ==
    LET n == IF c.minutesInput # "" THEN NumberOf(c.minutesInput)
                                   ELSE [nan |-> FALSE, milli |-> DefaultMinutes * 1000]
    IN  [nan |-> n.nan, ceil |-> -((-(n.milli * 60)) \div 4000)]

(* The condition under which the warning is rendered *)
Warning(c) ==
    LET w == WarningThreshold(c)
    IN  ~w.nan /\ c.secondsLeft <= w.ceil /\ c.secondsLeft > 0

----------------------------------------------------------------------------
(* C1: while Running, a tick publishes max(0, round((target - now)/1000)),  *)
(* computed from the target and the clock alone: the target is not moved by *)
(* ticks that leave time or by the clock, and a tick at or after the target *)
(* publishes 0 and stops the countdown.                                     *)
C1_TickFromTarget ==
    [][ /\ (last' = "tick" /\ StateRunning /\ endRef # Null) =>
             LET d == endRef - now
                 expected == IF d + 500 < 1000 THEN 0 ELSE (d + 500) \div 1000
             IN  /\ StateSecondsLeft' = expected
                 /\ expected > 0 => (endRef' = endRef /\ StateRunning')
                 /\ now >= endRef => AtZero'
        /\ last' = "advance" => endRef' = endRef
      ]_vars

(* A three-second countdown has been sampled down to zero by a tick. *)
C1_Witness ==
    /\ last = "tick" /\ AtZero
    /\ minutesInput = "0.05" /\ now >= 3000

C3_OneSampler == Cardinality(live) <= 1

(* Start was clicked while the countdown already ran with its interval    *)
(* live (on a legacy root a first start leaves the interval to the effect  *)
(* flush), and one interval is live.                                       *)
C3_Witness ==
    /\ ~concurrentRoot /\ last = "start"
    /\ running /\ Cardinality(live) = 1

(* C4: once the countdown has been stopped, a tick callback changes neither *)
(* secondsLeft, nor the run flag, nor the target.                           *)
C4_NoTickAfterStop ==
    [][ (last' = "tick" /\ ~StateRunning) =>
            UNCHANGED <<secondsLeft, pendSeconds, running, pendStop, endRef>>
      ]_vars

(* C5: reset leaves secondsLeft = 0, no target, not running, no sampler;    *)
(* from there only an accepted Set changes secondsLeft.                     *)
C5_Reset ==
    [][ /\ last' = "reset" => (AtZero' /\ secondsLeft' = 0 /\ Settled')
        /\ (AtZero /\ secondsLeft = 0 /\ Settled /\ last' # "set") =>
             (AtZero' /\ secondsLeft' = 0 /\ Settled')
      ]_vars

(* Reset while the countdown was running (the effect of the stop is still   *)
(* to be flushed).                                                          *)
C5_Witness == last = "reset" /\ depRunning /\ secondsLeft = 0 /\ live = {}

(* C6: an accepted Set from a stopped countdown gives secondsLeft =         *)
(* round(minutes * 60), clears the target, leaves the countdown not running *)
(* and makes the total (the ring's denominator) equal to secondsLeft.       *)
C6_Configure ==
    [][ (last' = "set" /\ ~running /\ minutesInput \in {"0.005", "0.02", "0.05", "1"}) =>
            LET m == NumberOf(minutesInput).milli
            IN  /\ secondsLeft' = (m * 60 + 500) \div 1000
                /\ endRef' = Null
                /\ ~StateRunning'
                /\ ~Denominator(Comp').nan
                /\ Denominator(Comp').milli = secondsLeft' * 1000
      ]_vars

(* C7: a rejected Set or Start changes nothing of the countdown and raises  *)
(* its alert.                                                               *)
C7_Rejected ==
    [][ /\ (last' = "set" /\ minutesInput \in {"", "0", "-5", "abc"}) =>
             /\ UNCHANGED <<secondsLeft, running, pendSeconds, pendStop, endRef,
                            timerRef, live, minutesInput, depRunning>>
             /\ alertMsg' = AlertMinutes
        /\ (last' = "start" /\ secondsLeft = 0) =>
             /\ UNCHANGED <<secondsLeft, running, pendSeconds, pendStop, endRef,
                            timerRef, live, minutesInput, depRunning>>
             /\ alertMsg' = AlertStart
      ]_vars

(* A Set with an invalid entry was rejected while the countdown ran. *)
C7_Witness ==
    /\ last = "set" /\ alertMsg = AlertMinutes
    /\ running /\ live # {} /\ endRef # Null

C9_RunningIffTarget == StateRunning <=> endRef # Null

(* A tick of a running countdown computed 0: it cleared the target and    *)
(* queued the stop, which is not rendered yet.                             *)
C9_Witness == last = "tick" /\ running /\ pendStop /\ endRef = Null

(* C11: pause while running leaves secondsLeft at                           *)
(* max(0, round((target - now)/1000)) taken at the click, clears the       *)
(* target and stops.                                                       *)
C11_PauseRecomputes ==
    [][ (last' = "pause" /\ running /\ endRef # Null) =>
            LET d == endRef - now
                expected == IF d + 500 < 1000 THEN 0 ELSE (d + 500) \div 1000
            IN  /\ secondsLeft' = expected
                /\ endRef' = Null
                /\ ~running'
      ]_vars

(* C12 as stated: a Set clicked while the countdown runs does not replace  *)
(* its secondsLeft.                                                        *)
C12_NoConfigureWhileRunning ==
    [][ (last' = "set" /\ running) => secondsLeft' = secondsLeft ]_vars

(* C12 amended: an accepted Set clicked while the countdown runs stops it   *)
(* in the same step (run flag off, no queued stop left, target cleared) and *)
(* sets secondsLeft = round(minutes * 60): the duration is never replaced   *)
(* under a countdown that goes on running.                                  *)
C12_ConfigureStops ==
    [][ (last' = "set" /\ running /\ Accepted(minutesInput)) =>
            /\ ~running' /\ ~StateRunning'
            /\ endRef' = Null
            /\ secondsLeft' = (NumberOf(minutesInput).milli * 60 + 500) \div 1000
            /\ pendSeconds' = None
      ]_vars

(* On a legacy root: Set was accepted while the countdown ran (the effect  *)
(* of the stop is still to be flushed).                                    *)
C12_Witness ==
    /\ ~concurrentRoot /\ last = "set" /\ alertMsg = ""
    /\ depRunning /\ ~running /\ secondsLeft = 3

(* C13: after an accepted Set the configured duration is at least one      *)
(* second.                                                                 *)
C13_TotalAtLeastOne ==
    [][ (last' = "set" /\ Accepted(minutesInput)) =>
            (secondsLeft' >= 1 /\ Denominator(Comp').milli >= 1000)
      ]_vars

(* C14: the ring's fraction is 1 right after an accepted Set, and 0 (a     *)
(* number, not NaN) whenever the countdown is stopped at zero.             *)
C14_Progress ==
    [][ /\ (last' = "set" /\ Accepted(minutesInput)) =>
             IsOne(ProgressFraction(Comp'))
        /\ (~running' /\ secondsLeft' = 0) =>
             IsZero(ProgressFraction(Comp'))
      ]_vars

(* C15: the ring's denominator and the basis of the warning are the        *)
(* duration of the last accepted Set, 300 s at the start: an accepted Set   *)
(* makes them round(minutes * 60), and no other step changes them.          *)
C15_TotalFrame ==
    /\ (last = "init" =>
            /\ Denominator(Comp) = [nan |-> FALSE, milli |-> DefaultSeconds * 1000]
            /\ WarningThreshold(Comp) = [nan |-> FALSE, ceil |-> 75])
    /\ [][ IF last' = "set" /\ Accepted(minutesInput)
           THEN Denominator(Comp') = [nan |-> FALSE, milli |-> secondsLeft' * 1000]
           ELSE /\ Denominator(Comp') = Denominator(Comp)
                /\ WarningThreshold(Comp') = WarningThreshold(Comp)
         ]_vars

(* C16: the warning is shown exactly when 0 < secondsLeft <=                *)
(* ceil(totalSeconds / 4), totalSeconds being the duration of the last      *)
(* accepted Set: the threshold is ceil(round(minutes * 60) / 4) after an    *)
(* accepted Set, no other step moves it, and the flag is the comparison     *)
(* with it.                                                                 *)
C16_Warning ==
    [][ /\ IF last' = "set" /\ Accepted(minutesInput)
           THEN WarningThreshold(Comp') =
                    [nan |-> FALSE, ceil |-> (secondsLeft' + 3) \div 4]
           ELSE WarningThreshold(Comp') = WarningThreshold(Comp)
        /\ Warning(Comp') <=>
             (secondsLeft' > 0 /\ secondsLeft' <= WarningThreshold(Comp').ceil)
      ]_vars

C18_RunningHasSampler ==
    (mounted /\ running /\ endRef # Null /\ Settled /\ ~EffectPending(Comp)) =>
        Cardinality(live) = 1

C20_LastSelectionWins ==
    [][ /\ (last' = "serverOk" /\ lastFile \notin (inflight \ inflight')) =>
             bgUrl' = bgUrl
        /\ uploadingToServer' <=> (inflight' # {})
      ]_vars

(* C10: an accepted Start sets the target to now + secondsLeft * 1000 and   *)
(* the run flag, and leaves secondsLeft and the minutes entry alone.        *)
C10_Start ==
    [][ (last' = "start" /\ secondsLeft > 0) =>
            /\ endRef' = now + secondsLeft * 1000
            /\ running' /\ StateRunning'
            /\ secondsLeft' = secondsLeft
            /\ minutesInput' = minutesInput
      ]_vars

(* Started from a configured duration, later than the clock's origin. *)
C10_Witness ==
    /\ last = "start" /\ running
    /\ secondsLeft = 3 /\ endRef = now + 3000 /\ now > 0
====
